---- MODULE Spec2Model ----
(***************************************************************************)
(* nose.plugins.errorclass: declarative error classes (ErrorClass,         *)
(* MetaErrorClass), the ErrorClassPlugin hooks addError and                *)
(* prepareTestResult, and the patching of a result object (patchResult).   *)
(*                                                                         *)
(* The patched-in methods are TextTestResult.addError/wasSuccessful of     *)
(* nose.result; that module is not part of the sources modelled here, so   *)
(* they follow the specification's sections 4.2-4.4.                       *)
(***************************************************************************)
EXTENDS Integers, Sequences, FiniteSets, TLC

VARIABLES
    pc,                 \* index in Plugins of the class statement being executed
    classBody,          \* classBody[p]: the ErrorClass attributes of class p, as written
    classState,         \* "pending" | "defined" | "TypeError", per plugin class
    errorClasses,       \* errorClasses[p]: the registry (MetaErrorClass)
    heap,               \* the list objects: heap[i] is the list with identity i
    attrs,              \* the result's list attributes: name -> list identity
    result_errorClasses,\* result.errorClasses: absent, or the category index
    methods,            \* the result's methods and the saved originals
    prepared,           \* plugins whose prepareTestResult ran, in order
    outcomes,           \* how each outcome so far was recorded, oldest first
    err,                \* the raised value of the error being handled, or None
    prev,               \* the result object as it was before the last operation
    lastOp              \* the last operation, its arguments and what it returned

vars == <<pc, classBody, classState, errorClasses, heap, attrs,
          result_errorClasses, methods, prepared, outcomes, err, prev, lastOp>>

-----------------------------------------------------------------------------
(* Bounds and input sets *)

MaxEvents == 2          \* outcomes recorded in one run
MaxCategories == 2      \* ErrorClass declarations in one class body
MaxTypes == 2           \* exception classes named by one ErrorClass
MaxEntries == 2         \* exception classes registered by all the plugin classes

Plugins == <<"A", "B">>         \* the plugin classes, in import order
PluginSet == {Plugins[i] : i \in 1..Len(Plugins)}

\* The base of each plugin class: class A(ErrorClassPlugin), class B(A)
Bases == [p \in PluginSet |-> IF p = "B" THEN "A" ELSE "ErrorClassPlugin"]

ExcTypes == {"Base", "Sub", "Other"}    \* Sub is a subclass of Base
NonClasses == {"a string"}              \* a raised value that is no class
Raised == ExcTypes \cup NonClasses
Names == {"todo", "skip", "errors"}     \* attribute names in a class body
AttrNames == Names \cup {"errors", "failures"}    \* list attributes of a result
Labels == {"TODO", "SKIP"}
Tests == {"t1"}

NoAttr == "<no attribute>"      \* hasattr(...) is false
None == "None"                  \* a function that returns nothing

-----------------------------------------------------------------------------
(* Helpers *)

Range(s) == {s[i] : i \in 1..Len(s)}

Perms(n) == {f \in [1..n -> 1..n] : \A i, j \in 1..n : f[i] = f[j] => i = j}

\* nose.util.isclass
isclass(v) == v \in ExcTypes

\* issubclass(a, b) over the modelled hierarchy
issubclass(a, b) == a = b \/ (a = "Sub" /\ b = "Base")

-----------------------------------------------------------------------------
(* ErrorClass: one declaration in a class body *)

\* The keyword arguments of a call: the keys given and their values.  The
\* declarations of a run are of two kinds, as in the module's doctest and in
\* nose's own plugins: TODO errors that fail the run, SKIP errors that do not.
Payloads == {[label |-> "TODO", isfailure |-> TRUE],
             [label |-> "SKIP", isfailure |-> FALSE]}

KwArgs == {kw \in [keys : SUBSET {"label", "isfailure"},
                   label : Labels, isfailure : BOOLEAN] :
              [label |-> kw.label, isfailure |-> kw.isfailure] \in Payloads}

TypeTuples == UNION {[1..n -> ExcTypes] : n \in 0..MaxTypes}

\* A variant of ErrorClass.__init__ with isfailure=False as a default
ErrorClass_defaultIsFailure(types, kw) ==
    IF "label" \notin kw.keys
    THEN [raised |-> "TypeError", arg |-> "label",
          errorClasses |-> <<>>, label |-> None, isfailure |-> FALSE]
    ELSE [raised |-> None, arg |-> None,
          errorClasses |-> types, label |-> kw.label,
          isfailure |-> IF "isfailure" \in kw.keys THEN kw.isfailure ELSE FALSE]

\* ErrorClass.__init__(*errorClasses, **kw): kw.pop('label') and then
\* kw.pop('isfailure'); a KeyError of either becomes a TypeError that names
\* the missing argument, and no instance results.
ErrorClass(types, kw) ==
    IF "label" \notin kw.keys
    THEN [raised |-> "TypeError", arg |-> "label",
          errorClasses |-> <<>>, label |-> None, isfailure |-> FALSE]
    ELSE IF "isfailure" \notin kw.keys
    THEN [raised |-> "TypeError", arg |-> "isfailure",
          errorClasses |-> <<>>, label |-> None, isfailure |-> FALSE]
    ELSE [raised |-> None, arg |-> None,
          errorClasses |-> types, label |-> kw.label,
          isfailure |-> kw.isfailure]

\* The instance as the class body keeps it.
Detail(ec) == [errorClasses |-> ec.errorClasses, label |-> ec.label,
               isfailure |-> ec.isfailure]

-----------------------------------------------------------------------------
(* MetaErrorClass.__init__ *)

\* A variant of the inner loop that registers only the first class of a
\* declaration
EntriesOf_firstOnly(name, detail) ==
    IF detail.errorClasses = <<>> THEN <<>>
    ELSE << <<detail.errorClasses[1], <<name, detail.label, detail.isfailure>>>> >>

\* The entries of one declaration: for cls in detail: (cls, (name, label, isfailure))
EntriesOf(name, detail) ==
    [i \in 1..Len(detail.errorClasses) |->
        <<detail.errorClasses[i], <<name, detail.label, detail.isfailure>>>>]

RECURSIVE Flatten(_, _, _)
\* for name, detail in attr.items(), taken in the order `order`
Flatten(body, order, i) ==
    IF i > Len(body) THEN <<>>
    ELSE EntriesOf(body[order[i]].name, body[order[i]].detail)
            \o Flatten(body, order, i + 1)

\* A variant of MetaErrorClass.__init__ in which the list starts from the
\* registry of the base class instead of errorClasses = []
MetaErrorClassInit_inherit(body, order) ==
    (IF Bases[Plugins[pc]] \in PluginSet
     THEN errorClasses[Bases[Plugins[pc]]] ELSE <<>>)
        \o Flatten(body, order, 1)

\* attr is a dict: items() yields the declarations in an order of its own,
\* not the order of the class body. `order` is that order.  The bases of
\* the class are not looked at.
MetaErrorClassInit(body, order) == Flatten(body, order, 1)

-----------------------------------------------------------------------------
(* ErrorClassPlugin *)

\* A variant of addError with the arguments of issubclass exchanged
addError_swapped(reg, err_cls) ==
    IF ~isclass(err_cls) THEN None
    ELSE LET classes == [i \in 1..Len(reg) |-> reg[i][1]]
         IN IF \E i \in 1..Len(classes) : issubclass(classes[i], err_cls)
            THEN "True" ELSE None

\* A variant of addError without the isclass guard: issubclass raises a
\* TypeError for a first argument that is no class
addError_noIsclass(reg, err_cls) ==
    LET classes == [i \in 1..Len(reg) |-> reg[i][1]]
    IN IF classes # <<>> /\ ~isclass(err_cls) THEN "TypeError"
       ELSE IF \E i \in 1..Len(classes) : issubclass(err_cls, classes[i])
            THEN "True" ELSE None

\* A variant of addError that looks the raised class up in
\* result.errorClasses instead of the plugin's own errorClasses
addError_fromIndex(reg, err_cls) ==
    IF ~isclass(err_cls) THEN None
    ELSE LET classes == [i \in 1..Len(result_errorClasses.items) |->
                            result_errorClasses.items[i][1]]
         IN IF \E i \in 1..Len(classes) : issubclass(err_cls, classes[i])
            THEN "True" ELSE None

\* ErrorClassPlugin.addError(test, err) of a plugin whose registry is reg:
\* nothing for a raised value that is no class, True when the raised class
\* is a subclass of a registered one, and nothing otherwise.
addError(reg, err_cls) ==
    IF ~isclass(err_cls) THEN None
    ELSE LET classes == [i \in 1..Len(reg) |-> reg[i][1]]
         IN IF \E i \in 1..Len(classes) : issubclass(err_cls, classes[i])
            THEN "True" ELSE None

\* A variant of patchResult that leaves result.addError as it is
patchResult_keepAddError(m) ==
    [addError            |-> m.addError,
     _orig_addError      |-> m.addError,
     wasSuccessful       |-> "TextTestResult",
     _orig_wasSuccessful |-> m.wasSuccessful,
     printErrors         |-> IF m.printErrors # NoAttr
                             THEN "TextTestResult" ELSE m.printErrors,
     _orig_printErrors   |-> IF m.printErrors # NoAttr
                             THEN m.printErrors ELSE m._orig_printErrors]

\* A variant of patchResult that leaves result.wasSuccessful as it is
patchResult_keepWasSuccessful(m) ==
    [addError            |-> "TextTestResult",
     _orig_addError      |-> m.addError,
     wasSuccessful       |-> m.wasSuccessful,
     _orig_wasSuccessful |-> m.wasSuccessful,
     printErrors         |-> IF m.printErrors # NoAttr
                             THEN "TextTestResult" ELSE m.printErrors,
     _orig_printErrors   |-> IF m.printErrors # NoAttr
                             THEN m.printErrors ELSE m._orig_printErrors]

\* A variant of patchResult that leaves result.printErrors as it is
patchResult_keepPrintErrors(m) ==
    [addError            |-> "TextTestResult",
     _orig_addError      |-> m.addError,
     wasSuccessful       |-> "TextTestResult",
     _orig_wasSuccessful |-> m.wasSuccessful,
     printErrors         |-> m.printErrors,
     _orig_printErrors   |-> IF m.printErrors # NoAttr
                             THEN m.printErrors ELSE m._orig_printErrors]

\* A variant of patchResult without the test hasattr(result, 'printErrors')
patchResult_alwaysPrintErrors(m) ==
    [addError            |-> "TextTestResult",
     _orig_addError      |-> m.addError,
     wasSuccessful       |-> "TextTestResult",
     _orig_wasSuccessful |-> m.wasSuccessful,
     printErrors         |-> "TextTestResult",
     _orig_printErrors   |-> m.printErrors]

\* patchResult: save the three methods and install TextTestResult's;
\* printErrors only when the result has one.
patchResult(m) ==
    [addError            |-> "TextTestResult",
     _orig_addError      |-> m.addError,
     wasSuccessful       |-> "TextTestResult",
     _orig_wasSuccessful |-> m.wasSuccessful,
     printErrors         |-> IF m.printErrors # NoAttr
                             THEN "TextTestResult" ELSE m.printErrors,
     _orig_printErrors   |-> IF m.printErrors # NoAttr
                             THEN m.printErrors ELSE m._orig_printErrors]

\* The classes that are keys of result.errorClasses
Keys(index) == {index[i][1] : i \in 1..Len(index)}

\* A variant of the loop body that never reuses an attribute of the result:
\* storage = []
PrepareEntry_newList(st, entry) ==
    LET cls == entry[1]
        storage_attr == entry[2][1]
        label == entry[2][2]
        isfail == entry[2][3]
    IN IF cls \in Keys(st.index) THEN st
       ELSE [heap  |-> Append(st.heap, <<>>),
             attrs |-> [st.attrs EXCEPT ![storage_attr] = Len(st.heap) + 1],
             index |-> Append(st.index,
                              <<cls, <<Len(st.heap) + 1, label, isfail>>>>)]

\* A variant of the loop body without the test `cls not in
\* result.errorClasses`: a later plugin replaces the entry of a class
PrepareEntry_overwrite(st, entry) ==
    LET cls == entry[1]
        storage_attr == entry[2][1]
        label == entry[2][2]
        isfail == entry[2][3]
        fresh == st.attrs[storage_attr] = 0
        storage == IF fresh THEN Len(st.heap) + 1 ELSE st.attrs[storage_attr]
        new == <<cls, <<storage, label, isfail>>>>
    IN [heap  |-> IF fresh THEN Append(st.heap, <<>>) ELSE st.heap,
        attrs |-> [st.attrs EXCEPT ![storage_attr] = storage],
        index |-> IF cls \in Keys(st.index)
                  THEN [i \in 1..Len(st.index) |->
                           IF st.index[i][1] = cls THEN new ELSE st.index[i]]
                  ELSE Append(st.index, new)]

\* A variant of the loop body without setattr(result, storage_attr, storage)
PrepareEntry_noSetattr(st, entry) ==
    LET cls == entry[1]
        storage_attr == entry[2][1]
        label == entry[2][2]
        isfail == entry[2][3]
    IN IF cls \in Keys(st.index) THEN st
       ELSE LET fresh == st.attrs[storage_attr] = 0
                storage == IF fresh THEN Len(st.heap) + 1
                           ELSE st.attrs[storage_attr]
            IN [heap  |-> IF fresh THEN Append(st.heap, <<>>) ELSE st.heap,
                attrs |-> st.attrs,
                index |-> Append(st.index, <<cls, <<storage, label, isfail>>>>)]

\* One round of the loop of prepareTestResult, on st = [heap, attrs, index]
PrepareEntry(st, entry) ==
    LET cls == entry[1]
        storage_attr == entry[2][1]
        label == entry[2][2]
        isfail == entry[2][3]
    IN IF cls \in Keys(st.index) THEN st
       ELSE LET fresh == st.attrs[storage_attr] = 0
                \* getattr(result, storage_attr, [])
                storage == IF fresh THEN Len(st.heap) + 1
                           ELSE st.attrs[storage_attr]
            IN [heap  |-> IF fresh THEN Append(st.heap, <<>>) ELSE st.heap,
                \* setattr(result, storage_attr, storage)
                attrs |-> [st.attrs EXCEPT ![storage_attr] = storage],
                \* result.errorClasses[cls] = (storage, label, isfail)
                index |-> Append(st.index, <<cls, <<storage, label, isfail>>>>)]

RECURSIVE PrepareLoop(_, _, _)
PrepareLoop(st, reg, i) ==
    IF i > Len(reg) THEN st
    ELSE PrepareLoop(PrepareEntry(st, reg[i]), reg, i + 1)

\* A variant of prepareTestResult that patches the result on every call
prepareTestResult_alwaysPatch(r, reg) ==
    LET st == PrepareLoop([heap |-> r.heap, attrs |-> r.attrs, index |-> <<>>],
                          reg, 1)
    IN [heap |-> st.heap, attrs |-> st.attrs,
        errorClasses |-> [has |-> TRUE, items |-> st.index],
        methods |-> patchResult(r.methods)]

\* A variant of prepareTestResult that calls patchResult on every call and
\* keeps the index of a result that has one
prepareTestResult_repatch(r, reg) ==
    LET st == PrepareLoop([heap |-> r.heap, attrs |-> r.attrs,
                           index |-> r.errorClasses.items],
                          reg, 1)
    IN [heap |-> st.heap, attrs |-> st.attrs,
        errorClasses |-> [has |-> TRUE, items |-> st.index],
        methods |-> patchResult(r.methods)]

\* prepareTestResult(result) of a plugin whose registry is reg, on the
\* result r = [heap, attrs, errorClasses, methods]
prepareTestResult(r, reg) ==
    LET patch == ~r.errorClasses.has
        st == PrepareLoop([heap |-> r.heap, attrs |-> r.attrs,
                           index |-> IF patch THEN <<>> ELSE r.errorClasses.items],
                          reg, 1)
    IN [heap |-> st.heap, attrs |-> st.attrs,
        errorClasses |-> [has |-> TRUE, items |-> st.index],
        methods |-> IF patch THEN patchResult(r.methods) ELSE r.methods]

-----------------------------------------------------------------------------
(* The result object.  The methods of unittest's result and the methods    *)
(* patched in from nose.result.TextTestResult.                             *)

\* _exc_info_to_string: the formatted traceback of a raised value
exc_info_to_string(raised) == <<"Traceback (most recent call last)", raised>>

\* storage.append((test, exc_info)) on the list with identity `storage`
AppendTo(h, storage, test, raised) ==
    [h EXCEPT ![storage] = Append(@, <<test, exc_info_to_string(raised)>>)]

\* unittest's addError: the error goes to result.errors
unittest_addError(r, test, raised) ==
    AppendTo(r.heap, r.attrs["errors"], test, raised)

\* The first entry of the index, in insertion order, that the raised class
\* matches (itself or a subclass of the entry's class); 0 when none does.
FirstMatch(index, ec) ==
    LET hits == {i \in 1..Len(index) : isclass(ec) /\ issubclass(ec, index[i][1])}
    IN IF hits = {} THEN 0 ELSE CHOOSE i \in hits : \A j \in hits : i <= j

\* The patched addError: on the first match the entry is appended to that
\* category's storage and the default bookkeeping is suppressed; on no match
\* the error goes to result.errors as before.
TextTestResult_addError(r, test, raised) ==
    LET m == FirstMatch(r.errorClasses.items, raised)
    IN IF m = 0 THEN unittest_addError(r, test, raised)
       ELSE AppendTo(r.heap, r.errorClasses.items[m][2][1], test, raised)

\* result.addError(test, err), through whichever method is installed
result_addError(r, test, raised) ==
    IF r.methods.addError = "TextTestResult"
    THEN TextTestResult_addError(r, test, raised)
    ELSE unittest_addError(r, test, raised)

\* unittest's addFailure (never patched)
result_addFailure(r, test, raised) ==
    AppendTo(r.heap, r.attrs["failures"], test, raised)

\* unittest's wasSuccessful
unittest_wasSuccessful(r) ==
    r.heap[r.attrs["failures"]] = <<>> /\ r.heap[r.attrs["errors"]] = <<>>

\* The patched wasSuccessful: false when the failures or the errors are
\* non-empty, or the storage of an entry whose isfail is true is non-empty.
TextTestResult_wasSuccessful(r) ==
    /\ r.heap[r.attrs["failures"]] = <<>>
    /\ r.heap[r.attrs["errors"]] = <<>>
    /\ \A i \in 1..Len(r.errorClasses.items) :
          LET e == r.errorClasses.items[i][2]
          IN e[3] => r.heap[e[1]] = <<>>

\* result.wasSuccessful(), through whichever method is installed
result_wasSuccessful(r) ==
    IF r.methods.wasSuccessful = "TextTestResult"
    THEN TextTestResult_wasSuccessful(r)
    ELSE unittest_wasSuccessful(r)

\* printErrorList(flavour, errors): one section, each entry headed
\* "FLAVOUR: test"; nothing is printed for an empty list
printErrorList(r, flavour, storage) ==
    IF r.heap[storage] = <<>> THEN <<>>
    ELSE << [flavour |-> flavour, storage |-> storage,
             errors |-> r.heap[storage]] >>

\* unittest's printErrors: the errors, then the failures
unittest_printErrors(r) ==
    printErrorList(r, "ERROR", r.attrs["errors"])
        \o printErrorList(r, "FAIL", r.attrs["failures"])

RECURSIVE CategorySections(_, _)
\* One section per storage list of the index, from entry i on, under the
\* label of the first entry that refers to the list
CategorySections(r, i) ==
    LET index == r.errorClasses.items
    IN IF i > Len(index) THEN <<>>
       ELSE (IF \E j \in 1..(i - 1) : index[j][2][1] = index[i][2][1]
             THEN <<>>
             ELSE printErrorList(r, index[i][2][2], index[i][2][1]))
            \o CategorySections(r, i + 1)

\* The patched printErrors: the default sections and then one section for
\* each non-empty category list
TextTestResult_printErrors(r) ==
    unittest_printErrors(r) \o CategorySections(r, 1)

\* result.printErrors(), through whichever method is installed; a result
\* without the method prints nothing
result_printErrors(r) ==
    IF r.methods.printErrors = "TextTestResult" THEN TextTestResult_printErrors(r)
    ELSE IF r.methods.printErrors = "unittest" THEN unittest_printErrors(r)
    ELSE <<>>

\* A result as unittest constructs it: errors and failures are two empty
\* lists, no errorClasses attribute, the methods are unittest's own.
\* An attribute that maps to 0 does not exist.
NewResult ==
    [heap |-> << <<>>, <<>> >>,
     attrs |-> [n \in AttrNames |-> IF n = "errors" THEN 1
                                    ELSE IF n = "failures" THEN 2 ELSE 0],
     errorClasses |-> [has |-> FALSE, items |-> <<>>],
     methods |-> [addError |-> "unittest", _orig_addError |-> NoAttr,
                  wasSuccessful |-> "unittest", _orig_wasSuccessful |-> NoAttr,
                  printErrors |-> "unittest", _orig_printErrors |-> NoAttr]]

\* A result of a class that has no printErrors method
NewResultNoPrintErrors ==
    [NewResult EXCEPT !.methods.printErrors = NoAttr]

\* How result.addError records a raised value: through an entry of the index
\* that counts as a failure or one that does not, or as a plain error
Route(r, raised) ==
    LET m == IF r.methods.addError = "TextTestResult"
             THEN FirstMatch(r.errorClasses.items, raised) ELSE 0
    IN IF m = 0 THEN "errors"
       ELSE IF r.errorClasses.items[m][2][3] THEN "isfailure" ELSE "not isfailure"

\* The result object of the current state
Result == [heap |-> heap, attrs |-> attrs,
           errorClasses |-> result_errorClasses, methods |-> methods]

wasSuccessful == result_wasSuccessful(Result)

\* The sections result.printErrors() prints in the current state
printErrors == result_printErrors(Result)

-----------------------------------------------------------------------------
(* The state machine *)

NoOp == [op |-> "none", plugin |-> None, raised |-> None, ret |-> None]

Init ==
    /\ pc = 1
    /\ classBody = [p \in PluginSet |-> <<>>]
    /\ classState = [p \in PluginSet |-> "pending"]
    /\ errorClasses = [p \in PluginSet |-> <<>>]
    /\ heap = NewResult.heap
    /\ attrs = NewResult.attrs
    /\ result_errorClasses = NewResult.errorClasses
    /\ methods = NewResult.methods
    /\ prepared = <<>>
    /\ outcomes = <<>>
    /\ err = None
    /\ prev = NewResult
    /\ lastOp = NoOp

RECURSIVE CountTypes(_, _)
\* The exception classes named by the declarations body[i..]
CountTypes(body, i) ==
    IF i > Len(body) THEN 0
    ELSE Len(body[i].detail.errorClasses) + CountTypes(body, i + 1)

RECURSIVE SumLen(_, _)
SumLen(f, S) == IF S = {} THEN 0
                ELSE LET x == CHOOSE y \in S : TRUE
                     IN Len(f[x]) + SumLen(f, S \ {x})

\* The exception classes registered or declared so far
Registered == SumLen(errorClasses, PluginSet)
              + (IF pc <= Len(Plugins) THEN CountTypes(classBody[Plugins[pc]], 1) ELSE 0)

resultVars == <<heap, attrs, result_errorClasses, methods>>
classVars == <<pc, classBody, classState, errorClasses>>

\* No class statement has raised
Importing == \A p \in PluginSet : classState[p] # "TypeError"

\* name = ErrorClass(*types, **kw) in the body of the class being defined.
\* A TypeError ends the class statement and the import with it: the class
\* is not created and no test runs.
NewErrorClass(name, types, kw) ==
    /\ pc <= Len(Plugins)
    /\ Importing
    /\ Len(classBody[Plugins[pc]]) < MaxCategories
    /\ Registered + Len(types) <= MaxEntries
    /\ \A i \in 1..Len(classBody[Plugins[pc]]) : classBody[Plugins[pc]][i].name # name
    /\ LET p == Plugins[pc]
           ec == ErrorClass(types, kw)
       IN IF ec.raised = None
          THEN /\ classBody' = [classBody EXCEPT
                      ![p] = Append(@, [name |-> name, detail |-> Detail(ec)])]
               /\ lastOp' = [op |-> "ErrorClass", plugin |-> p,
                             raised |-> None, ret |-> "instance"]
               /\ UNCHANGED <<pc, classState>>
          ELSE /\ classBody' = [classBody EXCEPT ![p] = <<>>]
               /\ classState' = [classState EXCEPT ![p] = ec.raised]
               /\ pc' = pc
               /\ lastOp' = [op |-> "ErrorClass", plugin |-> p,
                             raised |-> ec.raised, ret |-> ec.arg]
    /\ UNCHANGED <<errorClasses, heap, attrs, result_errorClasses, methods,
                   prepared, outcomes, err>>
    /\ prev' = Result

\* The end of the class statement: MetaErrorClass.__init__ builds
\* errorClasses and pops the ErrorClass attributes from attr
DefineClass(order) ==
    /\ pc <= Len(Plugins)
    /\ Importing
    /\ LET p == Plugins[pc]
       IN /\ order \in Perms(Len(classBody[p]))
          /\ errorClasses' = [errorClasses EXCEPT
                                ![p] = MetaErrorClassInit(classBody[p], order)]
          /\ classBody' = [classBody EXCEPT ![p] = <<>>]
          /\ classState' = [classState EXCEPT ![p] = "defined"]
          /\ lastOp' = [op |-> "class", plugin |-> p, raised |-> None, ret |-> None]
    /\ pc' = pc + 1
    /\ UNCHANGED <<heap, attrs, result_errorClasses, methods,
                   prepared, outcomes, err>>
    /\ prev' = Result

Running == pc > Len(Plugins) /\ Importing

\* plugin.prepareTestResult(result), between two tests
Prepare(p) ==
    /\ Running
    /\ err = None
    /\ classState[p] = "defined"
    /\ LET r == prepareTestResult(Result, errorClasses[p])
       IN /\ heap' = r.heap
          /\ attrs' = r.attrs
          /\ result_errorClasses' = r.errorClasses
          /\ methods' = r.methods
    /\ prepared' = IF p \in Range(prepared) THEN prepared ELSE Append(prepared, p)
    /\ lastOp' = [op |-> "prepareTestResult", plugin |-> p, raised |-> None,
                  ret |-> IF p \in Range(prepared) THEN "again" ELSE "first"]
    /\ UNCHANGED <<classVars, outcomes, err>>
    /\ prev' = Result

\* A test raises: the runner has the error (test, err) to hand to the
\* plugins' addError and to result.addError
Raise(test, raised) ==
    /\ Running
    /\ err = None
    /\ Len(outcomes) < MaxEvents
    /\ err' = raised
    /\ lastOp' = [op |-> "raise", plugin |-> None, raised |-> raised, ret |-> None]
    /\ UNCHANGED <<classVars, resultVars, prepared, outcomes>>
    /\ prev' = Result

\* A variant of the hook that, when it handles the error, also appends it
\* to the list of the first matching category of its registry
OnError_appending(p, test) ==
    /\ Running
    /\ err # None
    /\ classState[p] = "defined"
    /\ lastOp' = [op |-> "plugin.addError", plugin |-> p, raised |-> err,
                  ret |-> addError(errorClasses[p], err)]
    /\ LET reg == errorClasses[p]
           hits == {i \in 1..Len(reg) : isclass(err) /\ issubclass(err, reg[i][1])}
           first == CHOOSE i \in hits : \A j \in hits : i <= j
       IN heap' = IF hits # {} /\ attrs[reg[first][2][1]] # 0
                  THEN AppendTo(heap, attrs[reg[first][2][1]], test, err)
                  ELSE heap
    /\ UNCHANGED <<classVars, attrs, result_errorClasses, methods,
                   prepared, outcomes, err>>
    /\ prev' = Result

\* plugin.addError(test, err): the plugin hook, called with the error in hand
OnError(p, test) ==
    /\ Running
    /\ err # None
    /\ classState[p] = "defined"
    /\ lastOp' = [op |-> "plugin.addError", plugin |-> p, raised |-> err,
                  ret |-> addError(errorClasses[p], err)]
    /\ UNCHANGED <<classVars, resultVars, prepared, outcomes, err>>
    /\ prev' = Result

\* result.addError(test, err) with the error in hand
RecordError(test) ==
    /\ Running
    /\ err # None
    /\ heap' = result_addError(Result, test, err)
    /\ outcomes' = Append(outcomes, Route(Result, err))
    /\ err' = None
    /\ lastOp' = [op |-> "result.addError", plugin |-> None, raised |-> err,
                  ret |-> None]
    /\ UNCHANGED <<classVars, attrs, result_errorClasses, methods, prepared>>
    /\ prev' = Result

\* result.addFailure(test, err): a test failed an assertion
RecordFailure(test) ==
    /\ Running
    /\ err = None
    /\ Len(outcomes) < MaxEvents
    /\ heap' = result_addFailure(Result, test, "AssertionError")
    /\ outcomes' = Append(outcomes, "failures")
    /\ lastOp' = [op |-> "result.addFailure", plugin |-> None,
                  raised |-> "AssertionError", ret |-> None]
    /\ UNCHANGED <<classVars, attrs, result_errorClasses, methods, prepared, err>>
    /\ prev' = Result

\* The class statements first, in import order; then the run
Next ==
    \/ /\ ~Running
       /\ \E name \in Names, types \in TypeTuples, kw \in KwArgs :
             NewErrorClass(name, types, kw)
    \/ /\ ~Running
       /\ \E order \in UNION {Perms(n) : n \in 0..MaxCategories} :
             DefineClass(order)
    \/ \E p \in PluginSet : Prepare(p)
    \/ \E test \in Tests, raised \in Raised : Raise(test, raised)
    \/ \E p \in PluginSet, test \in Tests : OnError(p, test)
    \/ \E test \in Tests : RecordError(test)
    \/ \E test \in Tests : RecordFailure(test)

Spec == Init /\ [][Next]_vars

\* The class statements alone
NextClass ==
    \/ \E name \in Names, types \in TypeTuples, kw \in KwArgs :
          NewErrorClass(name, types, kw)
    \/ \E order \in UNION {Perms(n) : n \in 0..MaxCategories} :
          DefineClass(order)

SpecClass == Init /\ [][NextClass]_vars

\* The class statements and prepareTestResult, on a result that has no
\* printErrors method
InitNoPrintErrors ==
    /\ pc = 1
    /\ classBody = [p \in PluginSet |-> <<>>]
    /\ classState = [p \in PluginSet |-> "pending"]
    /\ errorClasses = [p \in PluginSet |-> <<>>]
    /\ heap = NewResultNoPrintErrors.heap
    /\ attrs = NewResultNoPrintErrors.attrs
    /\ result_errorClasses = NewResultNoPrintErrors.errorClasses
    /\ methods = NewResultNoPrintErrors.methods
    /\ prepared = <<>>
    /\ outcomes = <<>>
    /\ err = None
    /\ prev = NewResultNoPrintErrors
    /\ lastOp = NoOp

NextPrepare ==
    \/ /\ ~Running
       /\ \E name \in Names, types \in TypeTuples, kw \in KwArgs :
             NewErrorClass(name, types, kw)
    \/ /\ ~Running
       /\ \E order \in UNION {Perms(n) : n \in 0..MaxCategories} :
             DefineClass(order)
    \/ \E p \in PluginSet : Prepare(p)

SpecNoPrintErrors == InitNoPrintErrors /\ [][NextPrepare]_vars

-----------------------------------------------------------------------------
(* Vocabulary of the properties *)

Index == result_errorClasses.items
Extended == result_errorClasses.has
Errors == heap[attrs["errors"]]
Failures == heap[attrs["failures"]]

\* The last operation was result.addError(test, err); lastOp.raised is the
\* raised value and prev is the result as it was before the call
Recorded == lastOp.op = "result.addError"

\* The last operation was the addError hook of a plugin
Hooked == lastOp.op = "plugin.addError"

\* The entry result.addError appends for a raised value
EntryOf(raised) == <<"t1", exc_info_to_string(raised)>>

\* The index entries the raised value matches
Matching(index, raised) ==
    {i \in 1..Len(index) : isclass(raised) /\ issubclass(raised, index[i][1])}

\* The list identities other than those in S are as they were
OthersUnchanged(S) ==
    /\ Len(heap) = Len(prev.heap)
    /\ \A b \in 1..Len(prev.heap) : b \notin S => heap[b] = prev.heap[b]

\* The plugins whose prepareTestResult ran on the result
Prepared == Range(prepared)

\* The registry entries <<p, i>> of the prepared plugins
RegEntries == UNION {{<<p, i>> : i \in 1..Len(errorClasses[p])} : p \in Prepared}
RegCls(e) == errorClasses[e[1]][e[2]][1]
RegName(e) == errorClasses[e[1]][e[2]][2][1]
RegIsFail(e) == errorClasses[e[1]][e[2]][2][3]

\* The names under which the prepared plugins register the class cls
NamesOf(cls) == {RegName(e) : e \in {x \in RegEntries : RegCls(x) = cls}}

-----------------------------------------------------------------------------
(* C1 *)

\* C1, as stated: for every prepared plugin, every category C it declares
\* and every class T registered under C, recording an error whose class is
\* T or a subclass of T adds exactly one entry to C's list and none to
\* result.errors.
C1_EveryRegisteredType ==
    Recorded =>
        \A e \in RegEntries :
            (isclass(lastOp.raised) /\ issubclass(lastOp.raised, RegCls(e))) =>
                /\ prev.attrs[RegName(e)] # 0
                /\ heap[prev.attrs[RegName(e)]] =
                      Append(prev.heap[prev.attrs[RegName(e)]],
                             EntryOf(lastOp.raised))
                /\ Len(Errors) = Len(prev.heap[prev.attrs["errors"]])

\* C1, amended: the same, provided every index entry that the raised class
\* matches stores into C's list and C's list is not result.errors itself:
\* then exactly one entry is added to C's list and nothing else changes.
C1_RegisteredTypeRouted ==
    Recorded =>
        \A e \in RegEntries :
            ( /\ isclass(lastOp.raised) /\ issubclass(lastOp.raised, RegCls(e))
              /\ \A m \in Matching(prev.errorClasses.items, lastOp.raised) :
                    prev.errorClasses.items[m][2][1] = prev.attrs[RegName(e)]
              /\ prev.attrs[RegName(e)] # prev.attrs["errors"] ) =>
                /\ heap[prev.attrs[RegName(e)]] =
                      Append(prev.heap[prev.attrs[RegName(e)]],
                             EntryOf(lastOp.raised))
                /\ Errors = prev.heap[prev.attrs["errors"]]
                /\ OthersUnchanged({prev.attrs[RegName(e)]})

\* A Sub error was recorded through a category registered for Base: the
\* entry is in that category's list and result.errors is empty.
C1_Witness ==
    /\ lastOp.op = "result.addError" /\ lastOp.raised = "Sub"
    /\ Errors = <<>>
    /\ \E e \in RegEntries :
          /\ RegCls(e) = "Base"
          /\ attrs[RegName(e)] \notin {0, attrs["errors"]}
          /\ \A m \in Matching(Index, "Sub") : Index[m][2][1] = attrs[RegName(e)]
          /\ heap[attrs[RegName(e)]] = <<EntryOf("Sub")>>

-----------------------------------------------------------------------------
(* C2 *)

\* C2: on an extended result, wasSuccessful() is false whenever
\* result.failures or result.errors is non-empty, or the list of an index
\* entry whose isfail is true is non-empty.
C2_NotSuccessful ==
    Extended =>
        (( \/ Failures # <<>>
           \/ Errors # <<>>
           \/ \E i \in 1..Len(Index) : Index[i][2][3] /\ heap[Index[i][2][1]] # <<>> )
         => ~wasSuccessful)

\* Only the list of a category that counts as a failure is non-empty, and
\* the run is not successful.
C2_Witness ==
    /\ Extended /\ Failures = <<>> /\ Errors = <<>>
    /\ \E i \in 1..Len(Index) : Index[i][2][3] /\ heap[Index[i][2][1]] # <<>>
    /\ ~wasSuccessful

-----------------------------------------------------------------------------
(* C3 *)

\* C3, as stated: when result.failures and result.errors are empty and every
\* outcome was recorded through a category with isfailure false,
\* wasSuccessful() is true, however many entries those lists hold.
C3_NotFailureNeverCounts ==
    ( /\ Extended /\ Failures = <<>> /\ Errors = <<>>
      /\ \A i \in 1..Len(outcomes) : outcomes[i] = "not isfailure" )
    => wasSuccessful

-----------------------------------------------------------------------------
(* C4 *)

\* The lists that hold a Sub error after a plugin with the registry reg has
\* prepared a new result and result.addError was called with it
ListsWithSub(reg) ==
    LET r == prepareTestResult(NewResult, reg)
        h == result_addError(r, "t1", "Sub")
    IN {n \in Names : r.attrs[n] # 0 /\ h[r.attrs[n]] # <<>>}

\* C4, as stated: when a class body declares a category for Base before a
\* category for Sub, the registry lists the first one's entries before the
\* second one's, and a Sub error is recorded in the first one's list and not
\* in the second one's.
C4_DeclarationOrder ==
    [][\A order \in UNION {Perms(n) : n \in 0..MaxCategories} :
        DefineClass(order) =>
            LET p == Plugins[pc]
                body == classBody[p]
                reg == errorClasses'[p]
            IN \A i, j \in 1..Len(body) :
                 ( /\ i < j
                   /\ body[i].detail.errorClasses = <<"Base">>
                   /\ body[j].detail.errorClasses = <<"Sub">> ) =>
                     /\ \A a, b \in 1..Len(reg) :
                           (reg[a][2][1] = body[i].name /\ reg[b][2][1] = body[j].name)
                              => a < b
                     /\ ListsWithSub(reg) = {body[i].name}]_vars

-----------------------------------------------------------------------------
(* C5 *)

\* The prepared plugins that declare a category under the name n
Declaring(n) == {e[1] : e \in {x \in RegEntries : RegName(x) = n}}

\* C5: when two prepared plugins both declare a category under the name n,
\* whichever prepared first, an error that matches only classes registered
\* under n (and under no other name) is appended to the one list result.n:
\* every index entry it matches stores into that list and nothing else
\* changes.
C5_SharedBucket ==
    Recorded =>
        \A n \in Names :
            ( /\ Cardinality(Declaring(n)) >= 2
              /\ Matching(prev.errorClasses.items, lastOp.raised) # {}
              /\ \A m \in Matching(prev.errorClasses.items, lastOp.raised) :
                    NamesOf(prev.errorClasses.items[m][1]) = {n} ) =>
                /\ prev.attrs[n] # 0
                /\ \A m \in Matching(prev.errorClasses.items, lastOp.raised) :
                      prev.errorClasses.items[m][2][1] = prev.attrs[n]
                /\ heap[prev.attrs[n]] =
                      Append(prev.heap[prev.attrs[n]], EntryOf(lastOp.raised))
                /\ OthersUnchanged({prev.attrs[n]})

\* Both plugins declare the same name with different classes, and the one
\* list under that name holds an entry of each.
C5_Witness ==
    /\ Len(prepared) = 2
    /\ \E n \in Names, i, j \in 1..Len(Index) :
          /\ Declaring(n) = PluginSet
          /\ Index[i][1] # Index[j][1]
          /\ NamesOf(Index[i][1]) = {n} /\ NamesOf(Index[j][1]) = {n}
          /\ attrs[n] # 0
          /\ heap[attrs[n]] = <<EntryOf(Index[j][1]), EntryOf(Index[i][1])>>

-----------------------------------------------------------------------------
(* C6 *)

\* C6: a further prepareTestResult by a plugin that already prepared the
\* result, at any point of the run, leaves the index, every list and its
\* contents, the list attributes, and the installed and the saved methods
\* as they are.
C6_PrepareIdempotent ==
    (lastOp.op = "prepareTestResult" /\ lastOp.ret = "again") =>
        /\ heap = prev.heap
        /\ attrs = prev.attrs
        /\ result_errorClasses = prev.errorClasses
        /\ methods = prev.methods

\* A plugin with a category prepares again after an outcome was recorded
\* in one of the category lists.
C6_Witness ==
    /\ lastOp.op = "prepareTestResult" /\ lastOp.ret = "again"
    /\ errorClasses[lastOp.plugin] # <<>>
    /\ \E i \in 1..Len(Index) : heap[Index[i][2][1]] # <<>>

-----------------------------------------------------------------------------
(* C7 *)

\* The index entry of the class cls
Lookup(index, cls) == index[CHOOSE i \in 1..Len(index) : index[i][1] = cls][2]

\* The first registry entry for cls of the first plugin, in the order of
\* their first prepareTestResult, that registers cls
FirstOwner(cls) ==
    LET k == CHOOSE k \in 1..Len(prepared) :
                 /\ \E i \in 1..Len(errorClasses[prepared[k]]) :
                        errorClasses[prepared[k]][i][1] = cls
                 /\ \A j \in 1..(k - 1) :
                        \A i \in 1..Len(errorClasses[prepared[j]]) :
                            errorClasses[prepared[j]][i][1] # cls
        reg == errorClasses[prepared[k]]
        i == CHOOSE i \in 1..Len(reg) :
                 reg[i][1] = cls /\ \A j \in 1..(i - 1) : reg[j][1] # cls
    IN reg[i][2]

\* C7: every class of every prepared plugin's registry is in the index; its
\* entry holds the list, the label and the isfailure of the plugin that
\* prepared first; and an entry of the index is never changed or removed.
C7_MergeNeverOverwrites ==
    /\ \A e \in RegEntries :
            /\ RegCls(e) \in Keys(Index)
            /\ Lookup(Index, RegCls(e)) =
                  <<attrs[FirstOwner(RegCls(e))[1]],
                    FirstOwner(RegCls(e))[2], FirstOwner(RegCls(e))[3]>>
    /\ prev.errorClasses.has =>
            /\ Extended
            /\ \A i \in 1..Len(prev.errorClasses.items) :
                  Len(Index) >= i /\ Index[i] = prev.errorClasses.items[i]

\* Both plugins prepared, both register one class, with different details
C7_Witness ==
    /\ Len(prepared) = 2
    /\ \E i \in 1..Len(errorClasses[prepared[1]]),
          j \in 1..Len(errorClasses[prepared[2]]) :
          /\ errorClasses[prepared[1]][i][1] = errorClasses[prepared[2]][j][1]
          /\ errorClasses[prepared[1]][i][2][1] # errorClasses[prepared[2]][j][2][1]
          /\ errorClasses[prepared[1]][i][2][2] # errorClasses[prepared[2]][j][2][2]
          /\ Lookup(Index, errorClasses[prepared[1]][i][1])[2]
                = errorClasses[prepared[1]][i][2][2]
          /\ attrs[errorClasses[prepared[2]][j][2][1]] = 0

-----------------------------------------------------------------------------
(* C8 and C9 *)

\* result.addError recorded the raised value in result.errors and nowhere else
DefaultBookkeeping ==
    /\ Errors = Append(prev.heap[prev.attrs["errors"]], EntryOf(lastOp.raised))
    /\ OthersUnchanged({prev.attrs["errors"]})
    /\ attrs = prev.attrs
    /\ result_errorClasses = prev.errorClasses
    /\ methods = prev.methods

-----------------------------------------------------------------------------
(* C11 *)

\* The sections of the report that print the list with identity b
SectionsOf(b) == {k \in 1..Len(printErrors) : printErrors[k].storage = b}

\* The labels of the index entries that store into the list b
LabelsOf(b) == {Index[j][2][2] : j \in {x \in 1..Len(Index) : Index[x][2][1] = b}}

\* The report has one section for the list b when it is non-empty and none
\* when it is empty, headed by a label configured for it and not by FAIL or
\* ERROR
OneLabelledSection(b) ==
    /\ Cardinality(SectionsOf(b)) = (IF heap[b] = <<>> THEN 0 ELSE 1)
    /\ \A k \in SectionsOf(b) :
          /\ printErrors[k].flavour \in LabelsOf(b)
          /\ printErrors[k].flavour \notin {"FAIL", "ERROR"}
          /\ printErrors[k].errors = heap[b]

-----------------------------------------------------------------------------
(* C12 *)

\* C12: on a result without printErrors, prepareTestResult raises nothing:
\* addError and wasSuccessful are patched and their originals saved, the
\* index holds every class of the prepared plugins, the list of every index
\* entry is an attribute of the result, and the result has neither
\* printErrors nor _orig_printErrors.
C12_NoPrintErrorsTolerated ==
    /\ lastOp.op = "prepareTestResult" => (Extended /\ lastOp.raised = None)
    /\ Extended =>
          /\ methods.addError = "TextTestResult"
          /\ methods._orig_addError = "unittest"
          /\ methods.wasSuccessful = "TextTestResult"
          /\ methods._orig_wasSuccessful = "unittest"
          /\ methods.printErrors = NoAttr
          /\ methods._orig_printErrors = NoAttr
          /\ \A e \in RegEntries : RegCls(e) \in Keys(Index)
          /\ \A i \in 1..Len(Index) :
                \E n \in Names : attrs[n] = Index[i][2][1]

\* A plugin with a category prepared a result that has no printErrors
C12_Witness ==
    /\ lastOp.op = "prepareTestResult" /\ lastOp.ret = "first"
    /\ prev.methods.printErrors = NoAttr /\ ~prev.errorClasses.has
    /\ Index # <<>>
    /\ methods.addError = "TextTestResult"
    /\ methods.printErrors = NoAttr

-----------------------------------------------------------------------------
(* C13 *)

\* C13: the methods are patched exactly once: after any prepareTestResult
\* calls by any plugins the saved _orig_addError, _orig_wasSuccessful and
\* _orig_printErrors are the methods the result had before it was
\* extended, never a patched one; and only the first prepareTestResult
\* starts from an empty index, every later one keeps the entries there are.
C13_PatchedOnce ==
    /\ ~Extended => methods = NewResult.methods
    /\ Extended =>
          /\ methods._orig_addError = NewResult.methods.addError
          /\ methods._orig_wasSuccessful = NewResult.methods.wasSuccessful
          /\ methods._orig_printErrors = NewResult.methods.printErrors
          /\ methods.addError = "TextTestResult"
          /\ methods.wasSuccessful = "TextTestResult"
          /\ methods.printErrors = "TextTestResult"
    /\ (lastOp.op = "prepareTestResult" /\ ~prev.errorClasses.has) =>
          Keys(Index) = {errorClasses[lastOp.plugin][i][1] :
                            i \in 1..Len(errorClasses[lastOp.plugin])}
    /\ (lastOp.op = "prepareTestResult" /\ prev.errorClasses.has) =>
          /\ methods = prev.methods
          /\ Len(Index) >= Len(prev.errorClasses.items)
          /\ SubSeq(Index, 1, Len(prev.errorClasses.items)) = prev.errorClasses.items

\* The second plugin prepared a result that the first had extended, and
\* added an entry to the index.
C13_Witness ==
    /\ lastOp.op = "prepareTestResult" /\ lastOp.ret = "first"
    /\ Len(prepared) = 2
    /\ prev.errorClasses.has /\ prev.errorClasses.items # <<>>
    /\ Len(Index) > Len(prev.errorClasses.items)
    /\ methods._orig_addError = "unittest"

-----------------------------------------------------------------------------
(* C14 *)

\* The entries of the registry reg under the name n, in their order
EntriesUnder(reg, n) == SelectSeq(reg, LAMBDA e : e[2][1] = n)

\* C14: the registry of a class is the flattening of the declarations of its
\* body: a declaration under the name N with k classes, label L and flag F
\* contributes exactly the k entries (class, (N, L, F)), one for each class;
\* the registry has no other entry; a body without declarations gives an
\* empty registry.
C14_RegistryIsFlattening ==
    [][\A order \in UNION {Perms(n) : n \in 0..MaxCategories} :
        DefineClass(order) =>
            LET body == classBody[Plugins[pc]]
                reg == errorClasses'[Plugins[pc]]
            IN /\ \A i \in 1..Len(body) :
                     LET d == body[i].detail
                     IN EntriesUnder(reg, body[i].name) =
                           [j \in 1..Len(d.errorClasses) |->
                               <<d.errorClasses[j],
                                 <<body[i].name, d.label, d.isfailure>>>>]
               /\ \A k \in 1..Len(reg) :
                     \E i \in 1..Len(body) : reg[k][2][1] = body[i].name
               /\ Len(reg) = CountTypes(body, 1)
               /\ body = <<>> => reg = <<>>]_vars

\* A class with one declaration of two different classes is defined: its
\* registry has the two entries, under the one name.
C14_Witness ==
    /\ lastOp.op = "class"
    /\ Len(errorClasses[lastOp.plugin]) = 2
    /\ errorClasses[lastOp.plugin][1][1] # errorClasses[lastOp.plugin][2][1]
    /\ errorClasses[lastOp.plugin][1][2] = errorClasses[lastOp.plugin][2][2]

-----------------------------------------------------------------------------
(* C15 *)

\* C15: the addError hook of a plugin returns True exactly when the raised
\* value is a class that is, or is a subclass of, a class of that plugin's
\* own registry, and nothing otherwise; the result's index, the other
\* plugins and whether the plugin prepared the result play no part.
C15_HandledIffOwnRegistry ==
    Hooked =>
        /\ lastOp.ret \in {"True", None}
        /\ lastOp.ret = "True" <=>
              /\ isclass(lastOp.raised)
              /\ \E i \in 1..Len(errorClasses[lastOp.plugin]) :
                    issubclass(lastOp.raised, errorClasses[lastOp.plugin][i][1])

\* A plugin that did not prepare the result handles an error of a subclass
\* of its class, while the index, filled by the other plugin, has no entry
\* that matches.
C15_Witness ==
    /\ Hooked /\ lastOp.ret = "True"
    /\ lastOp.plugin \notin Prepared
    /\ Extended /\ Index # <<>>
    /\ Matching(Index, lastOp.raised) = {}
    /\ lastOp.raised \notin {errorClasses[lastOp.plugin][i][1] :
                                i \in 1..Len(errorClasses[lastOp.plugin])}

-----------------------------------------------------------------------------
(* C16 *)

\* The name under which the index entry of the class cls was registered
NameOf(cls) == FirstOwner(cls)[1]

\* C16: after any prepareTestResult calls, the index entry of a class
\* registered under the name N holds the very list that is the result's
\* attribute N; so the entries under one name hold one list, and an entry
\* that result.addError stores through an index entry is the last one of
\* the attribute's list.
C16_IndexSharesAttribute ==
    /\ \A i \in 1..Len(Index) :
          /\ attrs[NameOf(Index[i][1])] # 0
          /\ Index[i][2][1] = attrs[NameOf(Index[i][1])]
    /\ \A i, j \in 1..Len(Index) :
          NameOf(Index[i][1]) = NameOf(Index[j][1]) => Index[i][2][1] = Index[j][2][1]
    /\ (Recorded /\ Matching(prev.errorClasses.items, lastOp.raised) # {}) =>
          LET m == CHOOSE i \in Matching(prev.errorClasses.items, lastOp.raised) :
                      \A j \in Matching(prev.errorClasses.items, lastOp.raised) : i <= j
              n == NameOf(prev.errorClasses.items[m][1])
          IN heap[attrs[n]] = Append(prev.heap[prev.attrs[n]], EntryOf(lastOp.raised))

\* Two plugins registered different classes under one name; an error was
\* stored through the entry of the second and is in the result's attribute.
C16_Witness ==
    /\ Recorded
    /\ Len(Index) = 2
    /\ Index[1][1] # Index[2][1]
    /\ NameOf(Index[1][1]) = NameOf(Index[2][1])
    /\ Declaring(NameOf(Index[1][1])) = PluginSet
    /\ Matching(Index, lastOp.raised) = {2}
    /\ heap[attrs[NameOf(Index[2][1])]] = <<EntryOf(lastOp.raised)>>

-----------------------------------------------------------------------------
(* C17 *)

\* C17: the addError hook of a plugin only returns its answer: whether it
\* returns True or nothing, every list of the result and its contents, the
\* list attributes, the index and the registries are as they were.
C17_HookChangesNothing ==
    [][\A p \in PluginSet, test \in Tests :
          OnError(p, test) =>
              UNCHANGED <<heap, attrs, result_errorClasses, methods,
                          errorClasses>>]_vars

\* The hook of a prepared plugin handled an error that the index matches,
\* and every list of the result is still empty.
C17_Witness ==
    /\ Hooked /\ lastOp.ret = "True"
    /\ lastOp.plugin \in Prepared
    /\ Matching(Index, lastOp.raised) # {}
    /\ \A b \in 1..Len(heap) : heap[b] = <<>>
    /\ err = lastOp.raised

-----------------------------------------------------------------------------
(* C18 *)

\* C18: the registry of a plugin class that derives from another plugin
\* class holds only what its own body declares: every entry is a class,
\* name, label and flag of one of its own declarations, whatever the
\* registry of the base class holds; with an empty body the registry is
\* empty and the hook handles no raised value; the registry of the base
\* class stays as it is.
C18_OwnBodyOnly ==
    [][\A order \in UNION {Perms(n) : n \in 0..MaxCategories} :
        (DefineClass(order) /\ Bases[Plugins[pc]] \in PluginSet) =>
            LET body == classBody[Plugins[pc]]
                reg == errorClasses'[Plugins[pc]]
            IN /\ \A k \in 1..Len(reg) :
                     \E i \in 1..Len(body) :
                        /\ reg[k][2] = <<body[i].name, body[i].detail.label,
                                         body[i].detail.isfailure>>
                        /\ reg[k][1] \in Range(body[i].detail.errorClasses)
               /\ body = <<>> =>
                     /\ reg = <<>>
                     /\ \A raised \in Raised : addError(reg, raised) = None
               /\ errorClasses'[Bases[Plugins[pc]]] =
                     errorClasses[Bases[Plugins[pc]]]]_vars

\* B, which derives from A, is defined with an empty body while the
\* registry of A has entries: the registry of B is empty.
C18_Witness ==
    /\ lastOp.op = "class" /\ lastOp.plugin = "B"
    /\ Bases["B"] = "A"
    /\ errorClasses["A"] # <<>>
    /\ errorClasses["B"] = <<>>
    /\ classState["B"] = "defined"

-----------------------------------------------------------------------------
(* C10 *)

\* C10: a declaration without label, without isfailure or without both
\* fails with a TypeError and leaves no category definition (the class is
\* not created, nothing is registered, no test runs); a declaration with
\* both succeeds and stores exactly the given classes, label and flag.
C10_RequiredArguments ==
    /\ [](\A p \in PluginSet :
            classState[p] = "TypeError" =>
                errorClasses[p] = <<>> /\ classBody[p] = <<>> /\ ~Running)
    /\ [][\A name \in Names, types \in TypeTuples, kw \in KwArgs :
            NewErrorClass(name, types, kw) =>
                LET p == Plugins[pc]
                IN IF {"label", "isfailure"} \subseteq kw.keys
                   THEN /\ classState'[p] = "pending"
                        /\ classBody'[p] =
                              Append(classBody[p],
                                     [name |-> name,
                                      detail |-> [errorClasses |-> types,
                                                  label |-> kw.label,
                                                  isfailure |-> kw.isfailure]])
                   ELSE /\ classState'[p] = "TypeError"
                        /\ lastOp'.raised = "TypeError"
                        /\ classBody'[p] = <<>>
                        /\ errorClasses' = errorClasses]_vars

\* In the second class, a declaration that gives a label and no isfailure
\* raised the TypeError that names isfailure.
C10_Witness ==
    /\ lastOp.op = "ErrorClass" /\ lastOp.raised = "TypeError"
    /\ lastOp.ret = "isfailure"
    /\ lastOp.plugin = "B" /\ errorClasses["A"] # <<>>
    /\ classState["B"] = "TypeError"

====
